---- MODULE Spec2Model ----
(***************************************************************************)
(* A model of vault_indexer.py: the filename classifier and redactor, the  *)
(* vault walk with its aggregation, the per-folder example selection of    *)
(* the report renderer, and the part of main that runs them.               *)
(*                                                                         *)
(* A Python str is a sequence of one-character strings, so that stems,     *)
(* suffixes, tokens and substrings are computed as the code computes them. *)
(***************************************************************************)
EXTENDS Integers, Sequences, FiniteSets, TLC

VARIABLES
    \* ---- one call of detect_filename_pattern followed by redact_filename
    filename,        \* the argument: a base name with its extension
    pattern_type,    \* detect_filename_pattern(filename)[0], "" before the call
    redacted,        \* redact_filename(filename, pattern_type), <<>> before
    npc,             \* "input" -> "classified" -> "redacted"
    \* ---- the per-folder example loop of generate_markdown
    info_files,      \* info['files'] of one folder: the 'pattern' of each entry
    rows,            \* indices of the files whose row was written to md
    more_line,       \* <<N>> when "...and N more files" was written, else <<>>
    epc,             \* "build" -> "rendered"
    \* ---- the file system main runs on
    root_kind,       \* "missing" | "file" | "dir"
    parent,          \* parent[d]: the directory holding directory d (0: none)
    dirname,         \* dirname[d]: the base name of directory d
    listable,        \* listable[d]: os.scandir(d) succeeds
    dirfiles,        \* dirfiles[d]: the non-directory entries of d, in scandir order
    \* ---- main, scan_vault, generate_markdown
    pc,              \* position in main
    now,             \* the wall clock datetime.now() reads
    todo,            \* directories os.walk still has to list (a stack)
    structure,       \* the dict scan_vault builds
    visited,         \* directories os.walk yielded (history, not program state)
    markdown,        \* the text generate_markdown returned
    output_file,     \* the content of output_path, NoFile when never written
    exit_code,       \* what main returned, -1 while running
    run,             \* 1 or 2: the run of main in progress
    first_report     \* the markdown of run 1

name_vars == <<filename, pattern_type, redacted, npc>>
example_vars == <<info_files, rows, more_line, epc>>
fs_vars == <<root_kind, parent, dirname, listable, dirfiles>>
main_vars == <<pc, now, todo, structure, visited, markdown, output_file,
               exit_code, run, first_report>>
vars == <<name_vars, example_vars, fs_vars, main_vars>>

----------------------------------------------------------------------------
(* Characters and strings *)

Digits == {"0","1","2","3","4","5","6","7","8","9"}
HexLetters == {"a","b","c","d","e","f","A","B","C","D","E","F"}
\* \s of re and the separators of str.split(), as far as TLA+ can write them
Whitespace == {" ", "\t", "\n", "\r"}
\* the class [\s\-_\.]
Separators == Whitespace \cup {"-", "_", "."}

IsDigit(c) == c \in Digits
IsHex(c) == c \in Digits \cup HexLetters
IsSpace(c) == c \in Whitespace

RECURSIVE Decimal(_)
\* str(n) of a natural number
Decimal(n) ==
    LET d == <<"0","1","2","3","4","5","6","7","8","9">>[(n % 10) + 1]
    IN IF n < 10 THEN <<d>> ELSE Decimal(n \div 10) \o <<d>>

\* s.rfind('.'), 0-based; -1 when there is none
RFindDot(s) ==
    LET dots == {i \in 1..Len(s) : s[i] = "."}
    IN IF dots = {} THEN -1
       ELSE (CHOOSE i \in dots : \A j \in dots : j <= i) - 1

\* Path(filename).suffix, for a base name
PathSuffix(name) ==
    LET i == RFindDot(name)
    IN IF 0 < i /\ i < Len(name) - 1 THEN SubSeq(name, i + 1, Len(name)) ELSE <<>>

\* Path(filename).stem, for a base name
PathStem(name) ==
    LET i == RFindDot(name)
    IN IF 0 < i /\ i < Len(name) - 1 THEN SubSeq(name, 1, i) ELSE name

UpperLetters == <<"A","B","C","D","E","F","G","H","I","J","K","L","M","N","O","P",
                 "Q","R","S","T","U","V","W","X","Y","Z">>
LowerLetters == <<"a","b","c","d","e","f","g","h","i","j","k","l","m","n","o","p",
                 "q","r","s","t","u","v","w","x","y","z">>

\* str.lower(), on ASCII
LowerChar(c) ==
    IF \E i \in 1..26 : UpperLetters[i] = c
    THEN LowerLetters[CHOOSE i \in 1..26 : UpperLetters[i] = c]
    ELSE c

Lower(s) == [i \in 1..Len(s) |-> LowerChar(s[i])]

\* name.split(): the maximal runs of non-whitespace characters, in order
RECURSIVE SplitFrom(_, _, _)
SplitFrom(s, i, cur) ==
    IF i > Len(s) THEN (IF cur = <<>> THEN <<>> ELSE <<cur>>)
    ELSE IF IsSpace(s[i])
         THEN (IF cur = <<>> THEN <<>> ELSE <<cur>>) \o SplitFrom(s, i + 1, <<>>)
         ELSE SplitFrom(s, i + 1, Append(cur, s[i]))

Split(s) == SplitFrom(s, 1, <<>>)

----------------------------------------------------------------------------
(* The regular expressions of detect_filename_pattern.  A shape is a        *)
(* sequence of classes: "d" is \d, "h" is [a-f0-9] under IGNORECASE, "W" is *)
(* W under IGNORECASE, any other class is that literal character.           *)

ClassMatches(cls, c) ==
    CASE cls = "d" -> IsDigit(c)
      [] cls = "h" -> IsHex(c)
      [] cls = "W" -> c \in {"W", "w"}
      [] OTHER -> c = cls

ShapeMatches(s, shape) ==
    /\ Len(s) = Len(shape)
    /\ \A i \in 1..Len(shape) : ClassMatches(shape[i], s[i])

\* re.match('^shape$', s): $ also matches before one trailing newline
FullMatch(s, shape) ==
    \/ ShapeMatches(s, shape)
    \/ /\ Len(s) = Len(shape) + 1
       /\ s[Len(s)] = "\n"
       /\ ShapeMatches(SubSeq(s, 1, Len(shape)), shape)

Rep(cls, n) == [i \in 1..n |-> cls]

ShapeYMD == Rep("d", 4) \o <<"-">> \o Rep("d", 2) \o <<"-">> \o Rep("d", 2)
ShapeYMDDots == Rep("d", 4) \o <<".">> \o Rep("d", 2) \o <<".">> \o Rep("d", 2)
ShapeMDY == Rep("d", 2) \o <<"-">> \o Rep("d", 2) \o <<"-">> \o Rep("d", 4)
ShapeWeek == Rep("d", 4) \o <<"-", "W">> \o Rep("d", 2)
ShapeZettel == Rep("d", 14)
ShapeTimestamp == Rep("d", 12)
ShapeUUID == Rep("h", 8) \o <<"-">> \o Rep("h", 4) \o <<"-">> \o Rep("h", 4)
             \o <<"-">> \o Rep("h", 4) \o <<"-">> \o Rep("h", 12)

\* the length of the longest run of characters of the set chars in s, from
\* position i on
RECURSIVE RunLength(_, _, _)
RunLength(s, i, chars) ==
    IF i <= Len(s) /\ s[i] \in chars THEN 1 + RunLength(s, i + 1, chars) ELSE 0

\* group(1) of re.match(r'^(\d+[\s\-_\.]+)', name), <<>> when there is no match
\* (both runs are greedy, and no digit is a separator, so no backtracking)
NumberedPrefix(name) ==
    LET nd == RunLength(name, 1, Digits)
        ns == RunLength(name, nd + 1, Separators)
    IN IF nd >= 1 /\ ns >= 1 THEN SubSeq(name, 1, nd + ns) ELSE <<>>

----------------------------------------------------------------------------
(* detect_filename_pattern, redact_filename, get_file_type_category *)

PatternTypes == {"daily_note", "weekly_note", "zettelkasten", "timestamp",
                 "numbered_prefix", "uuid", "standard"}

\* (pattern_type, example_format); the first rule that matches decides
detect_filename_pattern(fname) ==
    LET name == PathStem(fname)
    IN IF FullMatch(name, ShapeYMD) THEN <<"daily_note", "YYYY-MM-DD">>
       ELSE IF FullMatch(name, ShapeYMDDots) THEN <<"daily_note", "YYYY.MM.DD">>
       ELSE IF FullMatch(name, ShapeMDY) THEN <<"daily_note", "MM-DD-YYYY">>
       ELSE IF FullMatch(name, ShapeWeek) THEN <<"weekly_note", "YYYY-Www">>
       ELSE IF FullMatch(name, ShapeZettel) THEN <<"zettelkasten", "YYYYMMDDHHmmss">>
       ELSE IF FullMatch(name, ShapeTimestamp) THEN <<"timestamp", "YYYYMMDDHHmm">>
       ELSE IF NumberedPrefix(name) # <<>> THEN <<"numbered_prefix", "NNN - [Title]">>
       ELSE IF FullMatch(name, ShapeUUID) THEN <<"uuid", "UUID">>
       ELSE <<"standard", "[Title]">>

FakeDateHyphen == <<"2","0","2","4","-","0","1","-","1","5">>
FakeDateDots == <<"2","0","2","4",".","0","1",".","1","5">>
FakeWeek == <<"2","0","2","4","-","W","0","3">>
FakeZettel == <<"2","0","2","4","0","1","1","5","1","4","3","0","2","2">>
FakeTimestamp == <<"2","0","2","4","0","1","1","5","1","4","3","0">>
RedactedTitle == <<"[","R","e","d","a","c","t","e","d"," ","T","i","t","l","e","]">>
MaskedUUID == <<"x","x","x","x","x","x","x","x","-","x","x","x","x","-",
                "x","x","x","x","-","x","x","x","x","-",
                "x","x","x","x","x","x","x","x","x","x","x","x">>
NoteOpen == <<"[","N","o","t","e","_">>
NoteMid == <<"]"," ","(","~">>
NoteClose == <<" ","w","o","r","d","s"," ","i","n"," ","t","i","t","l","e",")">>

\* the file names the classifier and the redactor are run on: a body followed
\* by an extension (Path decides what the stem and the suffix of the whole are)
NameBodies ==
    { <<"w","o","r","d","s">>,
      <<"t","i","t","l","e">>,
      <<"N","o","t","e">>,
      <<"p","l","a","n">>,
      <<"m","y"," ","p","l","a","n">>,
      <<"i","n"," ","t","i","t","l","e">>,
      <<"w","o","r","d","s"," ","i","n"," ","t","i","t","l","e">>,
      <<"m","y"," "," ","p","l","a","n">>,
      <<"1","2","3","4">>,
      <<"a","b","c","d">>,
      <<"2","0","2","4","-","0","1","-","1","5">>,
      <<"2","0","2","3",".","1","2",".","3","1">>,
      <<"1","2","-","3","1","-","2","0","2","4">>,
      <<"2","0","2","4","-","W","0","3">>,
      <<"2","0","2","4","-","w","5","2">>,
      <<"2","0","2","4","0","1","1","5","1","4","3","0","2","2">>,
      <<"2","0","2","4","0","1","1","5","1","4","3","0">>,
      <<"0","0","1"," ","-"," ","p","l","a","n">>,
      <<"1","2","_","t","i","t","l","e">>,
      <<"7",".","w","o","r","d","s">>,
      <<"a","1","b","2","c","3","d","4","-","e","5","f","6","-","7","8","9","0","-","a","b","c","d","-","e","f","1","2","3","4","5","6","7","8","9","0">>,
      <<"A","B","C","D","E","F","1","2","-","1","2","3","4","-","1","2","3","4","-","1","2","3","4","-","1","2","3","4","5","6","7","8","9","A","B","C">>,
      <<"1","2","3","4","5","6","7","8","-","1","2","3","4","-","1","2","3","4","-","1","2","3","4","-","1","2","3","4","5","6","7","8","9","a","b","c">>,
      <<"0","0","0","0","0","0","0","0","-","0","0","0","0","-","0","0","0","0","-","0","0","0","0","-","0","0","0","0","0","0","0","0","0","0","0","0">>,
      <<"1","2","3","4","5","6","7","a","-","1","2","3","4","-","1","2","3","4","-","1","2","3","4","-","1","2","3","4","5","6","7","8","9","a","b","c">> }

Extensions == { <<>>, <<".","m","d">>, <<".","p","n","g">> }

Filenames == {b \o e : b \in NameBodies, e \in Extensions}

\* hashlib.md5(name.encode()).hexdigest()[:6], tabulated on the stems of the
\* file names above and of the vault's files (the values are those MD5 gives)
md5_hexdigest_6(name) ==
    CASE name = <<".","D","S","_","S","t","o","r","e">>
           -> <<"e","d","b","2","7","4">>
      [] name = <<".","x">>
           -> <<"8","4","f","b","8","8">>
      [] name = <<"0","0","0","0","0","0","0","0","-","0","0","0","0","-","0","0","0","0","-","0","0","0","0","-","0","0","0","0","0","0","0","0","0","0","0","0">>
           -> <<"9","f","8","9","c","8">>
      [] name = <<"0","0","1"," ","-"," ","p","l","a","n">>
           -> <<"6","a","5","f","7","1">>
      [] name = <<"1","2","-","3","1","-","2","0","2","4">>
           -> <<"f","5","5","b","0","a">>
      [] name = <<"1","2","3","4">>
           -> <<"8","1","d","c","9","b">>
      [] name = <<"1","2","3","4","5","6","7","8","-","1","2","3","4","-","1","2","3","4","-","1","2","3","4","-","1","2","3","4","5","6","7","8","9","a","b","c">>
           -> <<"7","a","3","3","1","4">>
      [] name = <<"1","2","3","4","5","6","7","a","-","1","2","3","4","-","1","2","3","4","-","1","2","3","4","-","1","2","3","4","5","6","7","8","9","a","b","c">>
           -> <<"c","9","c","c","5","9">>
      [] name = <<"1","2","_","t","i","t","l","e">>
           -> <<"b","5","9","8","6","7">>
      [] name = <<"2","0","2","3",".","1","2">>
           -> <<"f","9","1","b","f","3">>
      [] name = <<"2","0","2","3",".","1","2",".","3","1">>
           -> <<"3","3","a","f","d","0">>
      [] name = <<"2","0","2","4","-","0","1","-","1","5">>
           -> <<"0","4","9","3","6","7">>
      [] name = <<"2","0","2","4","-","W","0","3">>
           -> <<"9","1","3","d","b","f">>
      [] name = <<"2","0","2","4","-","w","5","2">>
           -> <<"8","6","3","0","0","b">>
      [] name = <<"2","0","2","4","0","1","1","5","1","4","3","0">>
           -> <<"f","5","0","6","a","3">>
      [] name = <<"2","0","2","4","0","1","1","5","1","4","3","0","2","2">>
           -> <<"f","b","c","8","7","d">>
      [] name = <<"7">>
           -> <<"8","f","1","4","e","4">>
      [] name = <<"7",".","w","o","r","d","s">>
           -> <<"8","2","4","f","8","1">>
      [] name = <<"A","B","C","D","E","F","1","2","-","1","2","3","4","-","1","2","3","4","-","1","2","3","4","-","1","2","3","4","5","6","7","8","9","A","B","C">>
           -> <<"d","1","3","9","5","6">>
      [] name = <<"N","o","t","e">>
           -> <<"3","b","0","6","4","9">>
      [] name = <<"a","1","b","2","c","3","d","4","-","e","5","f","6","-","7","8","9","0","-","a","b","c","d","-","e","f","1","2","3","4","5","6","7","8","9","0">>
           -> <<"4","8","f","0","8","a">>
      [] name = <<"a","b","c","d">>
           -> <<"e","2","f","c","7","1">>
      [] name = <<"i","n"," ","t","i","t","l","e">>
           -> <<"5","1","a","3","2","f">>
      [] name = <<"m","y"," "," ","p","l","a","n">>
           -> <<"a","3","a","a","9","d">>
      [] name = <<"m","y"," ","p","l","a","n">>
           -> <<"4","d","7","d","a","2">>
      [] name = <<"n","o","d","e","_","m","o","d","u","l","e","s">>
           -> <<"3","e","c","0","3","5">>
      [] name = <<"p","l","a","n">>
           -> <<"5","f","c","2","5","1">>
      [] name = <<"t","i","t","l","e">>
           -> <<"d","5","d","3","d","b">>
      [] name = <<"w">>
           -> <<"f","1","2","9","0","1">>
      [] name = <<"w","o","r","d","s">>
           -> <<"8","9","7","5","9","e">>
      [] name = <<"w","o","r","d","s"," ","i","n"," ","t","i","t","l","e">>
           -> <<"7","8","6","c","4","8">>

\* the last three lines of redact_filename: the hash-based placeholder
StandardPlaceholder(name, ext) ==
    LET short_hash == md5_hexdigest_6(name)
        word_count == Len(Split(name))
    IN NoteOpen \o short_hash \o NoteMid \o Decimal(word_count) \o NoteClose \o ext

redact_filename(fname, ptype) ==
    LET ext == PathSuffix(fname)
        name == PathStem(fname)
    IN IF ptype = "daily_note"
       THEN (IF \E i \in 1..Len(name) : name[i] = "-"
             THEN FakeDateHyphen \o ext
             ELSE FakeDateDots \o ext)
       ELSE IF ptype = "weekly_note" THEN FakeWeek \o ext
       ELSE IF ptype = "zettelkasten" THEN FakeZettel \o ext
       ELSE IF ptype = "timestamp" THEN FakeTimestamp \o ext
       ELSE IF ptype = "numbered_prefix" /\ NumberedPrefix(name) # <<>>
       THEN NumberedPrefix(name) \o RedactedTitle \o ext
       ELSE IF ptype = "uuid" THEN MaskedUUID \o ext
       ELSE StandardPlaceholder(name, ext)

\* the table of get_file_type_category, in its order
categories ==
    << <<"notes", {<<".","m","d">>, <<".","m","a","r","k","d","o","w","n">>, <<".","t","x","t">>}>>,
       <<"images", {<<".","p","n","g">>,
           <<".","j","p","g">>,
           <<".","j","p","e","g">>,
           <<".","g","i","f">>,
           <<".","s","v","g">>,
           <<".","w","e","b","p">>,
           <<".","b","m","p">>}>>,
       <<"documents", {<<".","p","d","f">>,
           <<".","d","o","c">>,
           <<".","d","o","c","x">>,
           <<".","x","l","s">>,
           <<".","x","l","s","x">>,
           <<".","p","p","t">>,
           <<".","p","p","t","x">>}>>,
       <<"audio", {<<".","m","p","3">>,
           <<".","w","a","v">>,
           <<".","m","4","a">>,
           <<".","o","g","g">>,
           <<".","f","l","a","c">>}>>,
       <<"video", {<<".","m","p","4">>,
           <<".","m","o","v">>,
           <<".","a","v","i">>,
           <<".","m","k","v">>,
           <<".","w","e","b","m">>}>>,
       <<"data", {<<".","j","s","o","n">>,
           <<".","c","s","v">>,
           <<".","y","a","m","l">>,
           <<".","y","m","l">>,
           <<".","x","m","l">>}>>,
       <<"code", {<<".","p","y">>,
           <<".","j","s">>,
           <<".","t","s">>,
           <<".","h","t","m","l">>,
           <<".","c","s","s">>,
           <<".","s","h">>}>>,
       <<"canvas", {<<".","c","a","n","v","a","s">>}>> >>

get_file_type_category(fname) ==
    LET ext == Lower(PathSuffix(fname))
        hits == {i \in 1..Len(categories) : ext \in categories[i][2]}
    IN IF hits = {} THEN "other"
       ELSE categories[CHOOSE i \in hits : \A j \in hits : i <= j][1]

----------------------------------------------------------------------------
(* One file name through the classifier and the redactor *)

NameInit ==
    /\ filename \in Filenames
    /\ pattern_type = ""
    /\ redacted = <<>>
    /\ npc = "input"

NameIdle ==
    /\ filename = <<>>
    /\ pattern_type = ""
    /\ redacted = <<>>
    /\ npc = "idle"

DetectPattern ==
    /\ npc = "input"
    /\ pattern_type' = detect_filename_pattern(filename)[1]
    /\ npc' = "classified"
    /\ UNCHANGED <<filename, redacted>>

RedactFilename ==
    /\ npc = "classified"
    /\ redacted' = redact_filename(filename, pattern_type)
    /\ npc' = "redacted"
    /\ UNCHANGED <<filename, pattern_type>>

----------------------------------------------------------------------------
(* generate_markdown: the examples shown for one folder *)

DiversitySlots == 3
ExampleCap == 5

\* a variant that shows a row for every file
ShowsRow_always(pattern, seen_patterns, shown) == TRUE

\* if pattern not in seen_patterns or shown < 3
ShowsRow(pattern, seen_patterns, shown) ==
    pattern \notin seen_patterns \/ shown < DiversitySlots

\* a variant that stops one row late
ReachedCap_late(shown) == shown > ExampleCap

\* if shown >= 5: break
ReachedCap(shown) == shown >= ExampleCap

\* The for loop over info['files'], from file i on: the indices of the files
\* whose row is written, in order.  patterns[i] is info['files'][i]['pattern'].
RECURSIVE ExampleLoop(_, _, _, _)
ExampleLoop(patterns, i, shown_rows, seen_patterns) ==
    IF i > Len(patterns) THEN shown_rows
    ELSE LET show == ShowsRow(patterns[i], seen_patterns, Len(shown_rows))
             rows1 == IF show THEN Append(shown_rows, i) ELSE shown_rows
             seen1 == IF show THEN seen_patterns \cup {patterns[i]}
                      ELSE seen_patterns
         IN IF ReachedCap(Len(rows1)) THEN rows1
            ELSE ExampleLoop(patterns, i + 1, rows1, seen1)

ShownExamples(patterns) == ExampleLoop(patterns, 1, <<>>, {})

\* remaining = len(info['files']) - shown; the "...and N more files" line is
\* written when remaining > 0: <<N>> when written, <<>> when not
MoreFilesLine(patterns, shown) ==
    LET rem == Len(patterns) - shown
    IN IF rem > 0 THEN <<rem>> ELSE <<>>

MaxFiles == 6

ExampleInit ==
    /\ info_files = <<>>
    /\ rows = <<>>
    /\ more_line = <<>>
    /\ epc = "build"

ExampleIdle ==
    /\ info_files = <<>>
    /\ rows = <<>>
    /\ more_line = <<>>
    /\ epc = "idle"

\* the walk appended one more FileEntry to the folder
AddFile ==
    /\ epc = "build"
    /\ Len(info_files) < MaxFiles
    /\ \E p \in PatternTypes : info_files' = Append(info_files, p)
    /\ UNCHANGED <<rows, more_line, epc>>

\* the body of "if info['files']:" for this folder
RenderFolder ==
    /\ epc = "build"
    /\ info_files # <<>>
    /\ rows' = ShownExamples(info_files)
    /\ more_line' = MoreFilesLine(info_files, Len(rows'))
    /\ epc' = "rendered"
    /\ UNCHANGED info_files

----------------------------------------------------------------------------
(* Ordering of str, and dicts with their insertion order *)

\* the characters file and directory names are written with, in code point
\* order
NameChars ==
    << " ", "-", ".", "/", "0", "1", "2", "3", "4", "5", "6", "7", "8",
       "9", "A", "B", "C", "D", "E", "F", "G", "H", "I", "J", "K", "L",
       "M", "N", "O", "P", "Q", "R", "S", "T", "U", "V", "W", "X", "Y",
       "Z", "_", "a", "b", "c", "d", "e", "f", "g", "h", "i", "j", "k",
       "l", "m", "n", "o", "p", "q", "r", "s", "t", "u", "v", "w", "x",
       "y", "z" >>

\* the rank of c among them, which orders characters as ord(c) does
Ord(c) == CHOOSE i \in 1..Len(NameChars) : NameChars[i] = c

\* a < b for str: lexicographic by code point, a proper prefix first
StrLess(a, b) ==
    \E k \in 1..(Len(b)) :
        /\ \A j \in 1..(k - 1) : j <= Len(a) /\ a[j] = b[j]
        /\ k - 1 <= Len(a)
        /\ (k > Len(a) \/ Ord(a[k]) < Ord(b[k]))

\* sorted(keys) for a set of distinct str
RECURSIVE SortedKeys(_)
SortedKeys(S) ==
    IF S = {} THEN <<>>
    ELSE LET m == CHOOSE x \in S : \A y \in S \ {x} : StrLess(x, y)
         IN <<m>> \o SortedKeys(S \ {m})

\* A defaultdict(int) is the sequence of its <<key, count>> items in insertion
\* order.  dict[key] += 1:
Incr(dict, key) ==
    IF \E i \in 1..Len(dict) : dict[i][1] = key
    THEN [i \in 1..Len(dict) |->
             IF dict[i][1] = key THEN <<key, dict[i][2] + 1>> ELSE dict[i]]
    ELSE Append(dict, <<key, 1>>)

\* sorted(items, key=lambda x: -x[1]): by descending count, and stable
RECURSIVE SortedByCount(_)
SortedByCount(items) ==
    IF items = <<>> THEN <<>>
    ELSE LET best == CHOOSE i \in 1..Len(items) :
                        /\ \A j \in 1..Len(items) : items[j][2] <= items[i][2]
                        /\ \A j \in 1..(i - 1) : items[j][2] < items[i][2]
             rest == [j \in 1..(Len(items) - 1) |->
                         IF j < best THEN items[j] ELSE items[j + 1]]
         IN <<items[best]>> \o SortedByCount(rest)

----------------------------------------------------------------------------
(* The vault on disk.  Directories are numbered 1..Len(parent), the vault   *)
(* root is 1, and a directory's number is larger than its parent's; scandir *)
(* lists the subdirectories of a directory in the order of their numbers.   *)

MaxDirs == 3
MaxUnlistable == 1

SKIP_PATTERNS ==
    { <<".","o","b","s","i","d","i","a","n">>, <<".","t","r","a","s","h">>,
      <<".","g","i","t">>, <<".","D","S","_","S","t","o","r","e">>,
      <<"n","o","d","e","_","m","o","d","u","l","e","s">> }

RootName == <<"M","y","V","a","u","l","t">>

\* the names subdirectories take
DirNames == { <<"a">>, <<"b">>, <<".","x">>,
              <<"n","o","d","e","_","m","o","d","u","l","e","s">> }

\* the non-directory entries a directory may hold, in scandir order
FileLists ==
    { <<>>,
      << <<".","D","S","_","S","t","o","r","e">>, <<".","x">> >>,
      << <<"w",".","m","d">>,
         <<"n","o","d","e","_","m","o","d","u","l","e","s">>,
         <<"2","0","2","4","-","0","1","-","1","5",".","p","n","g">> >> }

Dirs == 1..Len(parent)

Trees(n) ==
    {p \in [1..n -> 0..(n - 1)] :
        /\ p[1] = 0
        /\ \A d \in 2..n : 1 <= p[d] /\ p[d] < d}

FsInit ==
    /\ root_kind \in {"missing", "file", "dir"}
    /\ IF root_kind = "dir"
       THEN \E n \in 1..MaxDirs :
              /\ parent \in Trees(n)
              /\ dirname \in [1..n -> DirNames \cup {RootName}]
              /\ dirname[1] = RootName
              /\ \A d \in 2..n : dirname[d] \in DirNames
              \* the entries of one directory have distinct names
              /\ \A c, d \in 2..n :
                    (c # d /\ parent[c] = parent[d]) => dirname[c] # dirname[d]
              /\ listable \in [1..n -> BOOLEAN]
              /\ Cardinality({d \in 1..n : ~listable[d]}) <= MaxUnlistable
              /\ dirfiles \in [1..n -> FileLists]
              /\ \A d \in 2..n : \A i \in 1..Len(dirfiles[parent[d]]) :
                    dirfiles[parent[d]][i] # dirname[d]
       ELSE /\ parent = <<0>>
            /\ dirname = <<RootName>>
            /\ listable = <<FALSE>>
            /\ dirfiles = << <<>> >>

FsIdle ==
    /\ root_kind = "missing"
    /\ parent = <<0>>
    /\ dirname = <<RootName>>
    /\ listable = <<FALSE>>
    /\ dirfiles = << <<>> >>

\* os.scandir(d) succeeds: d is a directory the process may list.  (A path
\* that is a file, or a directory without read permission, raises OSError;
\* os.walk is called without onerror, swallows it and yields nothing for d.)
ScandirOk(d) == root_kind = "dir" /\ listable[d]

\* the directory entries scandir reports for d
Children(d) ==
    LET IsChild(c) == parent[c] = d
    IN SelectSeq([i \in 1..Len(parent) |-> i], IsChild)

\* os.path.relpath(root, vault), '.' already replaced by ''
RECURSIVE RelPath(_)
RelPath(d) ==
    IF d = 1 THEN <<>>
    ELSE IF parent[d] = 1 THEN dirname[d]
    ELSE RelPath(parent[d]) \o <<"/">> \o dirname[d]

----------------------------------------------------------------------------
(* scan_vault *)

\* a variant without the hidden-name test
IsSkipped_list_only(name) == name \in SKIP_PATTERNS

\* d not in SKIP_PATTERNS and not d.startswith('.'), negated
IsSkipped(name) == name \in SKIP_PATTERNS \/ (name # <<>> /\ name[1] = ".")

\* dirs[:] = [d for d in dirs if ...]: the subdirectories os.walk descends into
KeptDirs(d) ==
    LET Keep(c) == ~IsSkipped(dirname[c])
    IN SelectSeq(Children(d), Keep)

\* valid_files = [f for f in files if ...]
ValidFiles(files) ==
    LET Keep(f) == ~IsSkipped(f)
    IN SelectSeq(files, Keep)

\* depth = len(rel_path.split(os.sep)) if rel_path else 0
DepthOf(rel_path) ==
    IF rel_path = <<>> THEN 0
    ELSE Cardinality({i \in 1..Len(rel_path) : rel_path[i] = "/"}) + 1

\* a variant that never raises depth_max
UpdatedDepthMax_stale(depth_max, depth) == depth_max

\* max(structure['stats']['depth_max'], depth)
UpdatedDepthMax(depth_max, depth) == IF depth > depth_max THEN depth ELSE depth_max

\* a variant that records every visited directory
ShouldRecord_always(valid_files, dirs) == TRUE

\* if valid_files or dirs
ShouldRecord(valid_files, dirs) == valid_files # <<>> \/ dirs # <<>>

\* the dict appended to folder_info['files'] for one file
FileEntry(fname) ==
    LET ptype == detect_filename_pattern(fname)[1]
    IN [redacted_name |-> redact_filename(fname, ptype),
        pattern |-> ptype,
        type |-> get_file_type_category(fname),
        extension |-> PathSuffix(fname)]

\* a variant that counts the files before they are filtered
FolderInfo_unfiltered_count(files, valid_files, dirs, depth) ==
    [file_count |-> Len(files),
     subfolder_count |-> Len(dirs),
     files |-> [i \in 1..Len(valid_files) |-> FileEntry(valid_files[i])],
     depth |-> depth]

\* folder_info once the loop over valid_files has run
FolderInfo(files, valid_files, dirs, depth) ==
    [file_count |-> Len(valid_files),
     subfolder_count |-> Len(dirs),
     files |-> [i \in 1..Len(valid_files) |-> FileEntry(valid_files[i])],
     depth |-> depth]

\* dict[key(f)] += 1 for the files from the i-th on
RECURSIVE CountTypes(_, _, _)
CountTypes(dict, valid_files, i) ==
    IF i > Len(valid_files) THEN dict
    ELSE CountTypes(Incr(dict, get_file_type_category(valid_files[i])),
                    valid_files, i + 1)

RECURSIVE CountPatterns(_, _, _)
CountPatterns(dict, valid_files, i) ==
    IF i > Len(valid_files) THEN dict
    ELSE CountPatterns(Incr(dict, detect_filename_pattern(valid_files[i])[1]),
                       valid_files, i + 1)

\* the key of the folder mapping: rel_path if rel_path else '/'
FolderKey(rel_path) == IF rel_path = <<>> THEN <<"/">> ELSE rel_path

\* structure as scan_vault builds it before the walk
NewStructure(time) ==
    [root |-> RootName,
     scanned_at |-> time,
     folders |-> <<>>,
     stats |-> [total_folders |-> 0,
                total_files |-> 0,
                file_types |-> <<>>,
                patterns_found |-> <<>>,
                depth_max |-> 0]]

\* f with f[k] = v, k added to its domain when new
Put(f, k, v) == [x \in DOMAIN f \cup {k} |-> IF x = k THEN v ELSE f[x]]

\* one iteration of "for root, dirs, files in os.walk(vault)" for directory d
AfterVisit(s, d) ==
    LET dirs == KeptDirs(d)
        rel_path == RelPath(d)
        depth == DepthOf(rel_path)
        valid_files == ValidFiles(dirfiles[d])
        st0 == [s.stats EXCEPT !.depth_max = UpdatedDepthMax(@, depth)]
    IN IF ShouldRecord(valid_files, dirs)
       THEN [s EXCEPT
               !.folders = Put(@, FolderKey(rel_path),
                               FolderInfo(dirfiles[d], valid_files, dirs, depth)),
               !.stats = [st0 EXCEPT
                   !.file_types = CountTypes(@, valid_files, 1),
                   !.patterns_found = CountPatterns(@, valid_files, 1),
                   !.total_files = @ + Len(valid_files),
                   !.total_folders = IF rel_path # <<>> THEN @ + 1 ELSE @]]
       ELSE [s EXCEPT !.stats = st0]

----------------------------------------------------------------------------
(* generate_tree, generate_markdown.  The report is the record of the      *)
(* values its text is formatted from, section by section.                  *)

\* one line of the tree: the indentation in units of 4 spaces, the last path
\* component, and file_summary (<<n>> for "(n files)", <<>> for the empty string)
TreeLine(folder_path, info) ==
    LET slashes == {i \in 1..Len(folder_path) : folder_path[i] = "/"}
        last == IF slashes = {} THEN 0
                ELSE CHOOSE i \in slashes : \A j \in slashes : j <= i
    IN [indent |-> Cardinality(slashes),
        name |-> SubSeq(folder_path, last + 1, Len(folder_path)),
        file_summary |-> IF info.file_count > 0 THEN <<info.file_count>> ELSE <<>>]

generate_tree(s) ==
    LET NotRoot(k) == k # <<"/">>
        keys == SelectSeq(SortedKeys(DOMAIN s.folders), NotRoot)
    IN [head |-> s.root,
        lines |-> [i \in 1..Len(keys) |-> TreeLine(keys[i], s.folders[keys[i]])]]

pattern_examples(pattern) ==
    CASE pattern = "daily_note" -> "YYYY-MM-DD.md"
      [] pattern = "weekly_note" -> "YYYY-Www.md"
      [] pattern = "zettelkasten" -> "YYYYMMDDHHmmss.md"
      [] pattern = "timestamp" -> "YYYYMMDDHHmm.md"
      [] pattern = "numbered_prefix" -> "001 - Title.md"
      [] pattern = "uuid" -> "xxxxxxxx-xxxx-xxxx-xxxx-xxxxxxxxxxxx.md"
      [] pattern = "standard" -> "[Any title].md"
      [] OTHER -> "[Unknown]"

\* the detail section of one folder
FolderDetail(folder_path, info) ==
    LET patterns == [i \in 1..Len(info.files) |-> info.files[i].pattern]
        shown == ShownExamples(patterns)
    IN [display_path |-> IF folder_path # <<"/">> THEN folder_path
                         ELSE <<"(","r","o","o","t",")">>,
        empty_note |-> info.files = <<>>,
        table |-> IF info.files # <<>>
                  THEN [i \in 1..Len(shown) |->
                           <<info.files[shown[i]].redacted_name,
                             info.files[shown[i]].pattern,
                             info.files[shown[i]].type>>]
                  ELSE <<>>,
        more |-> IF info.files # <<>> THEN MoreFilesLine(patterns, Len(shown))
                 ELSE <<>>]

generate_markdown(s) ==
    LET types == SortedByCount(s.stats.file_types)
        found == SortedByCount(s.stats.patterns_found)
        keys == SortedKeys(DOMAIN s.folders)
    IN [vault |-> s.root,
        generated |-> s.scanned_at,
        total_folders |-> s.stats.total_folders,
        total_files |-> s.stats.total_files,
        depth_max |-> s.stats.depth_max,
        files_by_type |-> types,
        patterns |-> [i \in 1..Len(found) |->
                         <<found[i][1], found[i][2], pattern_examples(found[i][1])>>],
        tree |-> generate_tree(s),
        details |-> [i \in 1..Len(keys) |-> FolderDetail(keys[i], s.folders[keys[i]])]]

----------------------------------------------------------------------------
(* main, from "Run the indexer" on *)

\* what a variable holds before it is assigned (records, as the values are)
NoFile == [absent |-> "file"]
NoReport == [absent |-> "report"]
NoStructure == [absent |-> "structure"]

MainInit ==
    /\ pc = "start"
    /\ now = 0
    /\ todo = <<>>
    /\ structure = NoStructure
    /\ visited = <<>>
    /\ markdown = NoReport
    /\ output_file = NoFile
    /\ exit_code = -1
    /\ run = "first"
    /\ first_report = NoReport

MainIdle ==
    /\ pc = "idle"
    /\ now = 0
    /\ todo = <<>>
    /\ structure = NoStructure
    /\ visited = <<>>
    /\ markdown = NoReport
    /\ output_file = NoFile
    /\ exit_code = -1
    /\ run = "first"
    /\ first_report = NoReport

\* if not os.path.exists(vault_path): return 1
VaultMissing ==
    /\ pc = "start"
    /\ root_kind = "missing"
    /\ exit_code' = 1
    /\ pc' = "done"
    /\ UNCHANGED <<now, todo, structure, visited, markdown, output_file, run,
                   first_report>>

\* the vault path exists: scan_vault is entered, builds structure with the
\* time of the call, and os.walk starts at the vault
ScanBegin ==
    /\ pc = "start"
    /\ root_kind # "missing"
    /\ structure' = NewStructure(now)
    /\ todo' = <<1>>
    /\ visited' = <<>>
    /\ pc' = "walk"
    /\ UNCHANGED <<now, markdown, output_file, exit_code, run, first_report>>

\* os.walk lists the next directory and yields it; the loop body runs, and
\* the subdirectories left in dirs are walked next, before what was pending
WalkYield ==
    /\ pc = "walk"
    /\ todo # <<>>
    /\ ScandirOk(Head(todo))
    /\ structure' = AfterVisit(structure, Head(todo))
    /\ visited' = Append(visited, Head(todo))
    /\ todo' = KeptDirs(Head(todo)) \o Tail(todo)
    /\ UNCHANGED <<pc, now, markdown, output_file, exit_code, run, first_report>>

\* os.walk cannot list the next directory: nothing is yielded for it
WalkError ==
    /\ pc = "walk"
    /\ todo # <<>>
    /\ ~ScandirOk(Head(todo))
    /\ todo' = Tail(todo)
    /\ UNCHANGED <<pc, now, structure, visited, markdown, output_file,
                   exit_code, run, first_report>>

\* the walk is over: scan_vault returns and generate_markdown renders
Generate ==
    /\ pc = "walk"
    /\ todo = <<>>
    /\ markdown' = generate_markdown(structure)
    /\ pc' = "write"
    /\ UNCHANGED <<now, todo, structure, visited, output_file, exit_code, run,
                   first_report>>

\* the report is written to output_path and main returns 0
WriteOutput ==
    /\ pc = "write"
    /\ output_file' = markdown
    /\ exit_code' = 0
    /\ pc' = "done"
    /\ UNCHANGED <<now, todo, structure, visited, markdown, run, first_report>>

\* os.makedirs or open raises OSError: the exception leaves main, the
\* interpreter exits with status 1 and output_path is left as it was
WriteFails ==
    /\ pc = "write"
    /\ exit_code' = 1
    /\ pc' = "done"
    /\ UNCHANGED <<now, todo, structure, visited, markdown, output_file, run,
                   first_report>>

\* the tool is run a second time, later, on the vault as it is
RunAgain ==
    /\ pc = "done"
    /\ run = "first"
    /\ exit_code = 0
    /\ run' = "second"
    /\ first_report' = markdown
    /\ now' = now + 1
    /\ pc' = "start"
    /\ exit_code' = -1
    /\ UNCHANGED <<todo, structure, visited, markdown, output_file>>

----------------------------------------------------------------------------
(* Specifications *)

\* one file name classified and redacted
NamesNext ==
    \/ DetectPattern /\ UNCHANGED <<example_vars, fs_vars, main_vars>>
    \/ RedactFilename /\ UNCHANGED <<example_vars, fs_vars, main_vars>>

NamesInit == NameInit /\ ExampleIdle /\ FsIdle /\ MainIdle

NamesSpec == NamesInit /\ [][NamesNext]_vars

\* one folder's files rendered
ExamplesNext ==
    \/ AddFile /\ UNCHANGED <<name_vars, fs_vars, main_vars>>
    \/ RenderFolder /\ UNCHANGED <<name_vars, fs_vars, main_vars>>

ExamplesInit == NameIdle /\ ExampleInit /\ FsIdle /\ MainIdle

ExamplesSpec == ExamplesInit /\ [][ExamplesNext]_vars

\* one run of main on a vault
MainNext ==
    \/ VaultMissing /\ UNCHANGED <<name_vars, example_vars, fs_vars>>
    \/ ScanBegin /\ UNCHANGED <<name_vars, example_vars, fs_vars>>
    \/ WalkYield /\ UNCHANGED <<name_vars, example_vars, fs_vars>>
    \/ WalkError /\ UNCHANGED <<name_vars, example_vars, fs_vars>>
    \/ Generate /\ UNCHANGED <<name_vars, example_vars, fs_vars>>
    \/ WriteOutput /\ UNCHANGED <<name_vars, example_vars, fs_vars>>
    \/ WriteFails /\ UNCHANGED <<name_vars, example_vars, fs_vars>>

Init == NameIdle /\ ExampleIdle /\ FsInit /\ MainInit

Spec == Init /\ [][MainNext]_vars

\* two runs of main on the same vault, the second later than the first
TwoRunsNext ==
    \/ MainNext
    \/ RunAgain /\ UNCHANGED <<name_vars, example_vars, fs_vars>>

TwoRunsSpec == Init /\ [][TwoRunsNext]_vars

----------------------------------------------------------------------------
(* Vocabulary of the properties *)

Range(seq) == {seq[i] : i \in 1..Len(seq)}

Min(a, b) == IF a <= b THEN a ELSE b

\* needle in hay, for str
Contains(hay, needle) ==
    \E i \in 0..(Len(hay) - Len(needle)) :
        \A j \in 1..Len(needle) : hay[i + j] = needle[j]

RECURSIVE SumOver(_, _)
\* the sum of f[x] over the x of S
SumOver(S, f) ==
    IF S = {} THEN 0
    ELSE LET x == CHOOSE y \in S : TRUE IN f[x] + SumOver(S \ {x}, f)

\* the largest element of a set of naturals, 0 for the empty set
MaxOf(S) == IF S = {} THEN 0 ELSE CHOOSE m \in S : \A x \in S : x <= m

\* the skip rule as the specification words it: a name of the fixed skip
\* list, or a name that starts with the hidden-file marker
SkipListed(name) ==
    \/ name = <<".","o","b","s","i","d","i","a","n">>
    \/ name = <<".","t","r","a","s","h">>
    \/ name = <<".","g","i","t">>
    \/ name = <<".","D","S","_","S","t","o","r","e">>
    \/ name = <<"n","o","d","e","_","m","o","d","u","l","e","s">>

Excluded(name) == SkipListed(name) \/ (Len(name) >= 1 /\ name[1] = ".")

\* the countable files of directory d, in order
Countable(d) ==
    LET Keep(f) == ~Excluded(f) IN SelectSeq(dirfiles[d], Keep)

\* the subdirectories of d that are not excluded
OpenSubdirs(d) == {c \in Dirs : parent[c] = d /\ ~Excluded(dirname[c])}

\* d is an excluded subdirectory or lies beneath one
RECURSIVE UnderExcluded(_)
UnderExcluded(d) ==
    IF d = 1 THEN FALSE
    ELSE Excluded(dirname[d]) \/ UnderExcluded(parent[d])

\* the distance of d from the vault root
RECURSIVE TreeDepth(_)
TreeDepth(d) == IF d = 1 THEN 0 ELSE 1 + TreeDepth(parent[d])

\* scan_vault has returned in this run
ScanDone == pc \in {"write", "done"} /\ structure # NoStructure

Recorded(d) == FolderKey(RelPath(d)) \in DOMAIN structure.folders

\* the whitespace-delimited tokens of length >= 4 of the stem of the file name
LongTokens(fname) ==
    {tok \in Range(Split(PathStem(fname))) : Len(tok) >= 4}

----------------------------------------------------------------------------
(* Properties *)

\* C1: the redacted name of a file classified 'standard' contains no
\* whitespace-delimited token of length >= 4 of the original stem.
C1_NoLeakStandard ==
    (npc = "redacted" /\ pattern_type = "standard") =>
        \A tok \in LongTokens(filename) : ~Contains(redacted, tok)

\* C2: a file name whose stem has the UUID shape is classified 'uuid' and
\* redacted to the x-masked literal followed by the original extension.
C2_UuidMasked ==
    (npc = "redacted" /\ ShapeMatches(PathStem(filename), ShapeUUID)) =>
        /\ pattern_type = "uuid"
        /\ redacted = MaskedUUID \o PathSuffix(filename)

\* C3: after the scan, total_files is the sum of len(files) over the folder
\* mapping and the sum of the file_count fields, and every recorded folder
\* has file_count = len(files).
C3_AggregationConsistency ==
    ScanDone =>
        LET folders == structure.folders
            lens == [k \in DOMAIN folders |-> Len(folders[k].files)]
            counts == [k \in DOMAIN folders |-> folders[k].file_count]
        IN /\ structure.stats.total_files = SumOver(DOMAIN folders, lens)
           /\ structure.stats.total_files = SumOver(DOMAIN folders, counts)
           /\ \A k \in DOMAIN folders : folders[k].file_count = Len(folders[k].files)

\* a scan that recorded several folders, counted files in two of them and
\* left a skipped file out
C3_Witness ==
    /\ ScanDone
    /\ structure.stats.total_files >= 4
    /\ \E j, k \in DOMAIN structure.folders :
          /\ j # k
          /\ structure.folders[j].file_count > 0
          /\ structure.folders[k].file_count > 0
    /\ \E d \in Range(visited) : Len(Countable(d)) < Len(dirfiles[d])

\* C4: an excluded subdirectory, at any depth, is never visited: neither it
\* nor a directory beneath it is a key of the folder mapping, every recorded
\* folder holds exactly the countable files of a visited directory outside
\* the excluded ones, and the excluded directories add nothing to
\* total_files, total_folders or a parent's subfolder_count.
C4_SkipListEnforced ==
    /\ \A i \in 1..Len(visited) : ~UnderExcluded(visited[i])
    /\ ScanDone =>
        LET folders == structure.folders
            seen == Range(visited)
            nfiles == [d \in seen |-> Len(Countable(d))]
        IN /\ \A d \in Dirs : UnderExcluded(d) => ~Recorded(d)
           /\ \A k \in DOMAIN folders :
                 \E d \in seen :
                    /\ ~UnderExcluded(d)
                    /\ FolderKey(RelPath(d)) = k
                    /\ folders[k].files =
                          [i \in 1..Len(Countable(d)) |-> FileEntry(Countable(d)[i])]
                    /\ folders[k].subfolder_count = Cardinality(OpenSubdirs(d))
           /\ structure.stats.total_files = SumOver(seen, nfiles)
           /\ structure.stats.total_folders =
                 Cardinality({d \in seen \ {1} : Recorded(d)})

\* a scan of a vault whose root holds countable files and one subdirectory,
\* dot-named and outside the skip list, that holds a subdirectory with
\* countable files
C4_Witness ==
    /\ ScanDone
    /\ 1 \in Range(visited)
    /\ \E d, c \in Dirs :
          /\ parent[d] = 1 /\ parent[c] = d
          /\ Excluded(dirname[d]) /\ ~SkipListed(dirname[d])
          /\ listable[d] /\ listable[c]
          /\ Countable(c) # <<>>
    /\ Recorded(1)
    /\ structure.folders[<<"/">>].subfolder_count = 0
    /\ structure.stats.total_files = Len(Countable(1))

\* C5: a directory with no countable file and no non-excluded subdirectory
\* is never a key of the folder mapping nor counted in total_folders, and
\* every visited directory that has one or the other is recorded, once.
C5_EmptyFoldersOmitted ==
    ScanDone =>
        /\ \A d \in Dirs :
              Recorded(d) <=>
                 /\ d \in Range(visited)
                 /\ (Countable(d) # <<>> \/ OpenSubdirs(d) # {})
        /\ \A i, j \in 1..Len(visited) : visited[i] = visited[j] => i = j
        /\ Cardinality(DOMAIN structure.folders) =
              Cardinality({d \in Dirs : Recorded(d)})
        /\ structure.stats.total_folders =
              Cardinality({d \in Dirs \ {1} :
                  d \in Range(visited)
                  /\ (Countable(d) # <<>> \/ OpenSubdirs(d) # {})})

\* a scan that visited a directory holding only skipped files, did not
\* record it, and recorded its parent
C5_Witness ==
    /\ ScanDone
    /\ \E d \in Range(visited) :
          /\ d # 1
          /\ dirfiles[d] # <<>>
          /\ ~Recorded(d)
          /\ Recorded(parent[d])

\* C6: when the vault root exists but cannot be listed, main writes no
\* report and does not return 0.
C6_RootReadFailureIsFatal ==
    (pc = "done" /\ root_kind # "missing" /\ ~ScandirOk(1)) =>
        /\ output_file = NoFile
        /\ exit_code # 0

\* C7: the report of a second run on the unchanged vault is the report of
\* the first run.
C7_SameReportOnRerun ==
    (run = "second" /\ pc \in {"write", "done"}) => markdown = first_report

\* C8: at most 5 example rows per folder, and the count reported for the
\* files left out is len(files) minus the rows shown.
C8_ExampleCap ==
    epc = "rendered" =>
        /\ Len(rows) <= 5
        /\ Len(info_files) > Len(rows) =>
              more_line = <<Len(info_files) - Len(rows)>>
        /\ Len(info_files) <= Len(rows) => more_line = <<>>

\* a folder of six files of six pattern types: five rows, one file left out
C8_Witness ==
    /\ epc = "rendered"
    /\ Len(info_files) = 6
    /\ Cardinality(Range(info_files)) = 6
    /\ Len(rows) = 5
    /\ more_line = <<1>>

\* C9, as claimed: a folder with n files shows min(n, 5) rows.
C9_ShowsMinOfNAnd5 ==
    epc = "rendered" => Len(rows) = Min(Len(info_files), 5)

\* C9, amended: the first three files are shown, then only the files whose
\* pattern type no earlier file of the folder has, in encounter order, until
\* 5 rows are shown.
C9_NewPatternsAfterThree ==
    epc = "rendered" =>
        LET n == Len(info_files)
            candidates ==
                {i \in 1..n :
                    i <= 3 \/ \A j \in 1..(i - 1) : info_files[j] # info_files[i]}
        IN /\ Len(rows) = Min(5, Cardinality(candidates))
           /\ \A k \in 1..Len(rows) : rows[k] \in candidates
           /\ \A k \in 1..(Len(rows) - 1) : rows[k] < rows[k + 1]
           /\ \A i \in candidates \ Range(rows) :
                 \A k \in 1..Len(rows) : rows[k] < i

\* a folder of five or more files of one pattern type: three rows
C9_Witness ==
    /\ epc = "rendered"
    /\ Len(info_files) >= 5
    /\ Cardinality(Range(info_files)) = 1
    /\ Len(rows) = 3

\* C10, as claimed: depth_max is the largest depth of a recorded folder.
C10_DepthMaxIsRecordedDepth ==
    ScanDone =>
        structure.stats.depth_max =
            MaxOf({structure.folders[k].depth : k \in DOMAIN structure.folders})

\* C10, amended: depth_max is the largest depth of a directory the walk
\* visited, recorded or not (0 when none was visited), so it is at least the
\* depth of every recorded folder.
C10_DepthMaxIsVisitedDepth ==
    ScanDone =>
        /\ structure.stats.depth_max = MaxOf({TreeDepth(d) : d \in Range(visited)})
        /\ \A k \in DOMAIN structure.folders :
              structure.folders[k].depth <= structure.stats.depth_max

\* a scan whose deepest visited directory is empty and so not recorded
C10_Witness ==
    /\ ScanDone
    /\ \E d \in Range(visited) :
          /\ ~Recorded(d)
          /\ TreeDepth(d) = structure.stats.depth_max
          /\ \A k \in DOMAIN structure.folders :
                structure.folders[k].depth < TreeDepth(d)

====
